---- MODULE Spec2Model ----
(***************************************************************************)
(* Model of host/frontend/host-orchestrator/intercept/js/                  *)
(* server_connector.js: createConnector (transport negotiation), the       *)
(* WebsocketConnector and the PollingConnector.                            *)
(*                                                                         *)
(* JavaScript runs handlers to completion on one thread, so one action is  *)
(* one event handler together with the promise continuations (microtasks)  *)
(* it triggers: a socket event, a fetch response, a timer, or a call made  *)
(* by the client page.                                                     *)
(***************************************************************************)
EXTENDS Integers, Sequences, FiniteSets, TLC

\* ---------------------------------------------------------------- bounds
MaxRequests == 2   \* requestDevice calls made by the page
MaxSends == 1      \* sendToDevice calls made by the page
MaxBatch == 2      \* messages in one poll response
MaxCursor == 2     \* messages the server has for one polling session

\* ------------------------------------------------------- values and inputs
Absent == "<absent>"
NotFound == "not found"
\* message.error is missing, present but falsy (''), or present and truthy
Truthy(e) == e \notin {Absent, ""}

\* two distinct contents
Bodies == {1, 2}
\* A decoded inbound websocket message.  body stands for the content of the
\* message: payload of a device_msg, device_info of a device_info, the
\* configuration of a config message.
Msg(t, e, b) == [message_type |-> t, error |-> e, body |-> b]
\* Every content for the recognized types without error; one message of an
\* unrecognized type; a falsy error field; a truthy error field on two types.
Messages ==
  {Msg(t, Absent, b) : t \in {"config", "device_info", "device_msg"}, b \in Bodies}
    \cup {Msg("bogus", Absent, 1), Msg("device_info", "", 1)}
    \cup {Msg(t, NotFound, 1) : t \in {"device_info", "device_msg"}}
UndefinedMsg == [message_type |-> "undefined", error |-> Absent, body |-> 0]

DeviceIds == {"d1"}
\* what the page passes to sendToDevice
Payloads == {"offer"}
DefaultCb == "default"
\* Callbacks the page registers.  cbReplacing calls onDeviceMsg(cbA) from
\* inside its own invocation.
UserCallbacks == {"cbA", "cbReplacing"}
CbInstalls(cb) == IF cb = "cbReplacing" THEN "cbA" ELSE cb

UnrecognizedMsg(type) == "Unrecognized message type from server: " \o type

\* Polling endpoints.  A session URL is the pair of the connection id it was
\* built from and the endpoint; connection id 0 is the text 'undefined' that
\* the template literal produces for a response without connection_id.
Unset == <<>>
ForwardUrl(connId) == <<connId, ":forward">>
MessagesUrl(connId) == <<connId, "messages">>
MinDelay == 1000
MaxDelay == 60000
Min(a, b) == IF a < b THEN a ELSE b
\* device_info values the connect endpoint reports
DeviceInfos == {1}
\* the configuration the infra_config endpoint serves
Configs == {1}

NoValue == [deviceInfo |-> 0, infraConfig |-> UndefinedMsg]
NewPromise == [state |-> "pending", value |-> NoValue, reason |-> Absent,
               first |-> "none", orphaned |-> FALSE]

VARIABLES
  wsReady,        \* WebSocket.readyState
  connectWs,      \* state of the promise made by connectWs()
  connector,      \* what createConnector returned ("none" while it awaits)
  firstEvent,     \* history: first of open / error seen on the socket
  futures,        \* WebsocketConnector.#futures
  wsRequests,     \* promises returned by WebsocketConnector.requestDevice
  onDeviceMsgCb,  \* #onDeviceMsgCb of the connector
  lastMsg,        \* the websocket message dispatched by the last step, if any
  lastCalls,      \* the callback invocations made by the last step
  wsThrew,        \* the last step ended in an uncaught TypeError
  droppedSome,    \* history: a payload went to the default callback
  delivered,      \* history: the payloads polled and handed to a callback
  sends,          \* promises returned by sendToDevice
  config,         \* PollingConnector.#config (0: undefined)
  configGets,     \* history: GET infra_config requests issued
  pollRequests,   \* calls of PollingConnector.requestDevice and their promises
  forwardUrl,     \* PollingConnector.#forwardUrl
  messagesUrl,    \* PollingConnector.#messagesUrl
  messagesReceived, \* PollingConnector.#messagesReceived
  pollerSchedule, \* PollingConnector.#pollerSchedule (0: undefined)
  chains,         \* one entry per pollerRoutine closure made by #startPolling
  sumBatches      \* history: total size of the poll responses received

vars == <<wsReady, connectWs, connector, firstEvent, futures, wsRequests,
          onDeviceMsgCb, lastMsg, lastCalls, wsThrew, droppedSome, delivered,
          sends, config, configGets, pollRequests, forwardUrl, messagesUrl,
          messagesReceived, pollerSchedule, chains, sumBatches>>

negVars == <<wsReady, connectWs, connector, firstEvent>>
wsVars == <<futures, wsRequests>>
cbVars == <<onDeviceMsgCb, droppedSome, delivered>>
cfgVars == <<config, configGets>>
urlVars == <<forwardUrl, messagesUrl>>
loopVars == <<messagesReceived, pollerSchedule, chains, sumBatches>>
pollVars == <<cfgVars, pollRequests, urlVars, loopVars>>

\* a step that dispatches no websocket message and invokes no callback
NoDispatch ==
  /\ lastMsg' = UndefinedMsg
  /\ lastCalls' = <<>>
  /\ wsThrew' = FALSE

\* ------------------------------------------------------------- promises
\* A promise settles once: resolve/reject of a settled promise is a no-op.
Settle(state, outcome) == IF state = "pending" THEN outcome ELSE state

ResolvePromise(ps, i, v) ==
  IF ps[i].state = "pending"
    THEN [ps EXCEPT ![i].state = "resolved", ![i].value = v]
    ELSE ps

\* a reject that overwrites the outcome of a settled promise
RejectOverwrites(ps, i, r) ==
  [ps EXCEPT ![i].state = "rejected", ![i].reason = r]

RejectPromise(ps, i, r) ==
  IF ps[i].state = "pending"
    THEN [ps EXCEPT ![i].state = "rejected", ![i].reason = r]
    ELSE ps

\* ------------------------------------------------------ createConnector
\* createConnector without the catch: the rejection of connectWs escapes
CreateConnectorNoCatch(p) ==
  IF p = "resolved" THEN "ws"
  ELSE IF p = "rejected" THEN "failed"
  ELSE "none"

\* What createConnector returns once the promise of connectWs has settled.
CreateConnectorResult(p) ==
  IF p = "resolved" THEN "ws"
  ELSE IF p = "rejected" THEN "polling"
  ELSE "none"

Init ==
  /\ wsReady = "CONNECTING"
  /\ connectWs = "pending"
  /\ connector = "none"
  /\ firstEvent = "none"
  /\ futures = [onDeviceAvailable |-> 0, onConnectionFailed |-> 0,
                infraConfig |-> UndefinedMsg]
  /\ wsRequests = <<>>
  /\ onDeviceMsgCb = DefaultCb
  /\ lastMsg = UndefinedMsg
  /\ lastCalls = <<>>
  /\ wsThrew = FALSE
  /\ droppedSome = FALSE
  /\ delivered = {}
  /\ sends = <<>>
  /\ config = 0
  /\ configGets = 0
  /\ pollRequests = <<>>
  /\ forwardUrl = Unset
  /\ messagesUrl = Unset
  /\ messagesReceived = 0
  /\ pollerSchedule = 0
  /\ chains = <<>>
  /\ sumBatches = 0

\* ws.onopen = () => resolve(ws), then createConnector resumes after its await
WsOnOpen ==
  /\ wsReady = "CONNECTING"
  /\ wsReady' = "OPEN"
  /\ connectWs' = Settle(connectWs, "resolved")
  /\ connector' = IF connector = "none"
                    THEN CreateConnectorResult(connectWs') ELSE connector
  /\ firstEvent' = IF firstEvent = "none" THEN "open" ELSE firstEvent
  /\ NoDispatch
  /\ UNCHANGED <<wsVars, cbVars, sends, pollVars>>

\* ws.onerror = evt => reject(evt); the handler stays set after open
WsOnError ==
  /\ wsReady \in {"CONNECTING", "OPEN"}
  /\ wsReady' = "CLOSED"
  /\ connectWs' = Settle(connectWs, "rejected")
  /\ connector' = IF connector = "none"
                    THEN CreateConnectorResult(connectWs') ELSE connector
  /\ firstEvent' = IF firstEvent = "none" THEN "error" ELSE firstEvent
  /\ NoDispatch
  /\ UNCHANGED <<wsVars, cbVars, sends, pollVars>>

\* ------------------------------------------------------------ callbacks
\* this.#onDeviceMsgCb(payload): the callback registered at this moment is
\* invoked; the result is the log of invocations and the callback
\* registered afterwards (the callback itself may call onDeviceMsg).
InvokeCb(cb, log, payload) ==
  [cb |-> CbInstalls(cb), log |-> Append(log, [cb |-> cb, payload |-> payload])]

SomeDropped(log) == \E i \in 1..Len(log) : log[i].cb = DefaultCb

OnDeviceMsg(cb) ==
  /\ connector # "none"
  /\ onDeviceMsgCb' = cb
  /\ NoDispatch
  /\ UNCHANGED <<negVars, wsVars, droppedSome, delivered, sends, pollVars>>

\* -------------------------------------------------- WebsocketConnector
RequestsResolved(ps) == \E i \in 1..Len(ps) : ps[i].state = "resolved"

WsRequestDevice(d) ==
  /\ connector = "ws"
  /\ Len(wsRequests) < MaxRequests
  /\ LET n == Len(wsRequests) + 1
         old == [i \in 1..Len(wsRequests) |->
                   IF wsRequests[i].state = "pending"
                     THEN [wsRequests[i] EXCEPT !.orphaned = TRUE]
                     ELSE wsRequests[i]]
     IN /\ wsRequests' = Append(old, NewPromise)
        /\ futures' = [futures EXCEPT !.onDeviceAvailable = n,
                                      !.onConnectionFailed = n]
  /\ NoDispatch
  /\ UNCHANGED <<negVars, cbVars, sends, pollVars>>

\* #wsSendJson: WebSocket.send on a socket that has been open does not throw
\* (after close the data is discarded), so the async function resolves.
WsSendToDevice(p) ==
  /\ connector = "ws"
  /\ Len(sends) < MaxSends
  /\ sends' = Append(sends, [early |-> ~RequestsResolved(wsRequests),
                             state |-> "resolved",
                             written |-> wsReady = "OPEN"])
  /\ NoDispatch
  /\ UNCHANGED <<negVars, wsVars, cbVars, pollVars>>

\* history kept with each promise: the first device_info or error condition
\* received since requestDevice returned it
IsErrorCondition(m) ==
  \/ Truthy(m.error)
  \/ m.message_type \notin {"config", "device_info", "device_msg"}

NoteFirst(ps, m) ==
  [i \in 1..Len(ps) |->
     IF ps[i].first # "none" THEN ps[i]
     ELSE IF IsErrorCondition(m) THEN [ps[i] EXCEPT !.first = "error"]
     ELSE IF m.message_type = "device_info"
       THEN [ps[i] EXCEPT !.first = "device_info"]
     ELSE ps[i]]

\* The state #onWebsocketMessage works on:
\* [f: #futures, ps: the promises, cb: #onDeviceMsgCb, log: the invocations
\* of callbacks, threw: an uncaught TypeError ended the handler]
\* Calling a continuation that was never registered is a TypeError.

\* if (message.error) { ...; this.#futures.onConnectionFailed(message.error) }
OnErrorField(m, st) ==
  IF st.f.onConnectionFailed = 0
    THEN [st EXCEPT !.threw = TRUE]
    ELSE [st EXCEPT !.ps = RejectPromise(st.ps, st.f.onConnectionFailed, m.error)]

\* case 'config' that keeps the first config message it received
OnConfigKeepsFirst(m, st) ==
  IF st.f.infraConfig = UndefinedMsg THEN [st EXCEPT !.f.infraConfig = m]
  ELSE st

\* case 'config'
OnConfig(m, st) == [st EXCEPT !.f.infraConfig = m]

\* case 'device_info' without the delete of onDeviceAvailable
OnDeviceInfoKeeps(m, st) ==
  IF st.f.onDeviceAvailable # 0
    THEN [st EXCEPT
            !.ps = ResolvePromise(st.ps, st.f.onDeviceAvailable,
                     [deviceInfo |-> m.body, infraConfig |-> st.f.infraConfig])]
    ELSE st

\* case 'device_info'
OnDeviceInfo(m, st) ==
  IF st.f.onDeviceAvailable # 0
    THEN [st EXCEPT
            !.ps = ResolvePromise(st.ps, st.f.onDeviceAvailable,
                     [deviceInfo |-> m.body, infraConfig |-> st.f.infraConfig]),
            !.f.onDeviceAvailable = 0]
    ELSE st

\* case 'device_msg' that delivers only once a device has been requested
OnDeviceMsgAfterRequest(m, st) ==
  IF st.f.onConnectionFailed = 0
    THEN st
    ELSE LET r == InvokeCb(st.cb, st.log, <<0, m.body>>)
         IN [st EXCEPT !.cb = r.cb, !.log = r.log]

\* case 'device_msg'
OnDeviceMsgMessage(m, st) ==
  LET r == InvokeCb(st.cb, st.log, <<0, m.body>>)
  IN [st EXCEPT !.cb = r.cb, !.log = r.log]

\* default that only logs the message
OnUnrecognizedLogged(m, st) == st

\* default
OnUnrecognized(m, st) ==
  IF st.f.onConnectionFailed = 0
    THEN [st EXCEPT !.threw = TRUE]
    ELSE [st EXCEPT !.ps = RejectPromise(st.ps, st.f.onConnectionFailed,
                                         UnrecognizedMsg(m.message_type))]

\* switch (type)
SwitchType(m, st) ==
  IF st.threw THEN st
  ELSE IF m.message_type = "config" THEN OnConfig(m, st)
  ELSE IF m.message_type = "device_info" THEN OnDeviceInfo(m, st)
  ELSE IF m.message_type = "device_msg" THEN OnDeviceMsgMessage(m, st)
  ELSE OnUnrecognized(m, st)

\* #onWebsocketMessage without the return that ends the error branch
DispatchNoReturn(m, st) ==
  IF Truthy(m.error) THEN SwitchType(m, OnErrorField(m, st))
  ELSE SwitchType(m, st)

\* #onWebsocketMessage(message)
Dispatch(m, st) ==
  IF Truthy(m.error) THEN OnErrorField(m, st) ELSE SwitchType(m, st)

\* ws.onmessage
OnWebsocketMessage(m) ==
  /\ connector = "ws"
  /\ wsReady = "OPEN"
  /\ LET r == Dispatch(m, [f |-> futures, ps |-> wsRequests,
                           cb |-> onDeviceMsgCb, log |-> <<>>,
                           threw |-> FALSE])
     IN /\ futures' = r.f
        /\ wsRequests' = NoteFirst(r.ps, m)
        /\ onDeviceMsgCb' = r.cb
        /\ lastCalls' = r.log
        /\ wsThrew' = r.threw
        /\ droppedSome' = (droppedSome \/ SomeDropped(r.log))
  /\ lastMsg' = m
  /\ UNCHANGED <<negVars, delivered, sends, pollVars>>

\* ---------------------------------------------------- PollingConnector
\* the value of the local connId before the connect POST has answered
NoReply == -1

\* a call of requestDevice: its position, the promise it returned, the
\* locals config and connId, and whether it has called #startPolling
NewCall == [pc |-> "config", state |-> "pending",
            value |-> [deviceInfo |-> 0, infraConfig |-> 0],
            cfg |-> 0, connId |-> NoReply, startedPolling |-> FALSE]

\* #startPolling without the test of #pollerSchedule
StartPollingUnguarded(sched, chs) ==
  [sched |-> 1,
   chs |-> Append(chs, [phase |-> "timer", delay |-> MinDelay,
                        start |-> 0, url |-> Unset])]

\* #startPolling that also starts a loop when the one it set up has ended
StartPollingRestarts(sched, chs) ==
  IF sched # 0 /\ \A c \in 1..Len(chs) : chs[c].phase # "dead"
    THEN [sched |-> sched, chs |-> chs]
    ELSE [sched |-> 1,
          chs |-> Append(chs, [phase |-> "timer", delay |-> MinDelay,
                               start |-> 0, url |-> Unset])]

\* #startPolling(): the new values of <<pollerSchedule, chains>>
StartPolling(sched, chs) ==
  IF sched # 0
    THEN [sched |-> sched, chs |-> chs]
    ELSE [sched |-> 1,
          chs |-> Append(chs, [phase |-> "timer", delay |-> MinDelay,
                               start |-> 0, url |-> Unset])]

\* requestDevice up to its first suspension.  #getConfig tests #config when
\* it is called: it either issues the GET or returns the cached value, and
\* in that case the connect POST is issued in the same turn.
PollRequestDevice(d) ==
  /\ connector = "polling"
  /\ Len(pollRequests) < MaxRequests
  /\ IF config = 0
       THEN /\ configGets' = configGets + 1
            /\ pollRequests' = Append(pollRequests, NewCall)
       ELSE /\ configGets' = configGets
            /\ pollRequests' = Append(pollRequests,
                 [NewCall EXCEPT !.pc = "connect", !.cfg = config])
  /\ NoDispatch
  /\ UNCHANGED <<negVars, wsVars, cbVars, sends, config, urlVars, loopVars>>

\* a requestDevice that calls #startPolling() before the connect POST
ConfigResponseStartsPolling(r, c) ==
  /\ connector = "polling"
  /\ r \in 1..Len(pollRequests)
  /\ pollRequests[r].pc = "config"
  /\ config' = c
  /\ pollRequests' = [pollRequests EXCEPT ![r].pc = "connect", ![r].cfg = c]
  /\ LET sp == StartPolling(pollerSchedule, chains)
     IN /\ pollerSchedule' = sp.sched
        /\ chains' = sp.chs
  /\ NoDispatch
  /\ UNCHANGED <<negVars, wsVars, cbVars, sends, configGets, urlVars,
                 messagesReceived, sumBatches>>

\* the GET of #getConfig answers: #config is assigned, #getConfig returns it
\* and requestDevice goes on to issue the connect POST
ConfigResponse(r, c) ==
  /\ connector = "polling"
  /\ r \in 1..Len(pollRequests)
  /\ pollRequests[r].pc = "config"
  /\ config' = c
  /\ pollRequests' = [pollRequests EXCEPT ![r].pc = "connect", ![r].cfg = c]
  /\ NoDispatch
  /\ UNCHANGED <<negVars, wsVars, cbVars, sends, configGets, urlVars, loopVars>>

\* the GET of #getConfig fails (fetch rejects or the body is not JSON)
ConfigFails(r) ==
  /\ connector = "polling"
  /\ r \in 1..Len(pollRequests)
  /\ pollRequests[r].pc = "config"
  /\ pollRequests' = [pollRequests EXCEPT ![r].pc = "done",
                                          ![r].state = "rejected"]
  /\ NoDispatch
  /\ UNCHANGED <<negVars, wsVars, cbVars, sends, cfgVars, urlVars, loopVars>>

\* the connect POST answers with JSON: connId is response.connection_id
\* (0 when the reply has none), info is response.device_info
ConnectResponse(r, connId, info) ==
  /\ connector = "polling"
  /\ r \in 1..Len(pollRequests)
  /\ pollRequests[r].pc = "connect"
  /\ forwardUrl' = ForwardUrl(connId)
  /\ messagesUrl' = MessagesUrl(connId)
  /\ LET sp == StartPolling(pollerSchedule, chains)
     IN /\ pollerSchedule' = sp.sched
        /\ chains' = sp.chs
  /\ pollRequests' = [pollRequests EXCEPT
       ![r].pc = "done", ![r].state = "resolved", ![r].startedPolling = TRUE,
       ![r].connId = connId,
       ![r].value = [deviceInfo |-> info, infraConfig |-> pollRequests[r].cfg]]
  /\ NoDispatch
  /\ UNCHANGED <<negVars, wsVars, cbVars, sends, cfgVars, messagesReceived,
                 sumBatches>>

\* the connect POST fails (fetch rejects or the body is not JSON)
ConnectFails(r) ==
  /\ connector = "polling"
  /\ r \in 1..Len(pollRequests)
  /\ pollRequests[r].pc = "connect"
  /\ pollRequests' = [pollRequests EXCEPT ![r].pc = "done",
                                          ![r].state = "rejected"]
  /\ NoDispatch
  /\ UNCHANGED <<negVars, wsVars, cbVars, sends, cfgVars, urlVars, loopVars>>

\* sendToDevice: ajaxPostJson(#forwardUrl, ...) issues the POST
PollSendToDevice(p) ==
  /\ connector = "polling"
  /\ Len(sends) < MaxSends
  /\ sends' = Append(sends, [early |-> ~RequestsResolved(pollRequests),
                             state |-> "pending",
                             written |-> forwardUrl # Unset])
  /\ NoDispatch
  /\ UNCHANGED <<negVars, wsVars, cbVars, pollVars>>

\* the forward POST answers with JSON / fails
ForwardResponse(i, ok) ==
  /\ connector = "polling"
  /\ i \in 1..Len(sends)
  /\ sends[i].state = "pending"
  /\ sends' = [sends EXCEPT ![i].state = IF ok THEN "resolved" ELSE "rejected"]
  /\ NoDispatch
  /\ UNCHANGED <<negVars, wsVars, cbVars, pollVars>>

\* the timer set by #startPolling or by pollerRoutine fires: pollerRoutine
\* runs up to the fetch of #pollMessages
TimerFires(c) ==
  /\ connector = "polling"
  /\ c \in 1..Len(chains)
  /\ chains[c].phase = "timer"
  /\ chains' = [chains EXCEPT ![c].phase = "inflight",
                              ![c].start = messagesReceived,
                              ![c].url = messagesUrl]
  /\ NoDispatch
  /\ UNCHANGED <<negVars, wsVars, cbVars, sends, cfgVars, pollRequests,
                 urlVars, messagesReceived, pollerSchedule, sumBatches>>

\* The messages endpoint answers a request for ?start=s with the messages of
\* that session after the first s, at most n of them.
ServerBatch(url, s, n) == [i \in 1..n |-> [payload |-> <<url[1], s + i>>]]

\* a cursor that counts responses instead of messages
AdvanceCursorByOne(received, arr) == received + 1

\* #pollMessages after the response: the cursor after a batch arr
AdvanceCursor(received, arr) == received + Len(arr)

\* a for loop that reads #onDeviceMsgCb once, before the first message
RECURSIVE ForEachMessageCapturedCb(_, _, _, _)
ForEachMessageCapturedCb(messages, cb, log, delay) ==
  IF messages = <<>>
    THEN [cb |-> cb, log |-> log, delay |-> delay]
    ELSE LET r == InvokeCb(cb, log, Head(messages).payload)
             rest == ForEachMessageCapturedCb(Tail(messages), cb, r.log, MinDelay)
         IN [rest EXCEPT !.cb = r.cb]

\* the for loop of pollerRoutine over the messages, from the state
\* <<callback, log, delay>> it starts in
RECURSIVE ForEachMessage(_, _, _, _)
ForEachMessage(messages, cb, log, delay) ==
  IF messages = <<>>
    THEN [cb |-> cb, log |-> log, delay |-> delay]
    ELSE LET r == InvokeCb(cb, log, Head(messages).payload)
         IN ForEachMessage(Tail(messages), r.cb, r.log, MinDelay)

\* a backoff that caps the delay before doubling it
BackoffCapsFirst(delay) == 2 * Min(MaxDelay, delay)

\* a backoff that adds the minimum instead of doubling
BackoffLinear(delay) == Min(MaxDelay, delay + MinDelay)

\* currentPollDelay = Math.min(60000, 2 * currentPollDelay)
Backoff(delay) == Min(MaxDelay, 2 * delay)

\* a pollerRoutine without the setTimeout at its end
PollResponseOnce(c, n) ==
  /\ connector = "polling"
  /\ c \in 1..Len(chains)
  /\ chains[c].phase = "inflight"
  /\ chains[c].url[1] # 0
  /\ chains[c].start + n <= MaxCursor
  /\ LET arr == ServerBatch(chains[c].url, chains[c].start, n)
         r == ForEachMessage(arr, onDeviceMsgCb, <<>>,
                             Backoff(chains[c].delay))
     IN /\ messagesReceived' = AdvanceCursor(messagesReceived, arr)
        /\ sumBatches' = sumBatches + n
        /\ onDeviceMsgCb' = r.cb
        /\ lastCalls' = r.log
        /\ droppedSome' = (droppedSome \/ SomeDropped(r.log))
        /\ delivered' = delivered \cup {r.log[i].payload : i \in 1..Len(r.log)}
        /\ chains' = [chains EXCEPT ![c].phase = "dead", ![c].delay = r.delay]
        /\ pollerSchedule' = pollerSchedule
  /\ lastMsg' = UndefinedMsg
  /\ wsThrew' = FALSE
  /\ UNCHANGED <<negVars, wsVars, sends, cfgVars, pollRequests, urlVars>>

\* the poll answers with an array of n messages: the rest of pollerRoutine
PollResponse(c, n) ==
  /\ connector = "polling"
  /\ c \in 1..Len(chains)
  /\ chains[c].phase = "inflight"
  /\ chains[c].url[1] # 0
  /\ chains[c].start + n <= MaxCursor
  /\ LET arr == ServerBatch(chains[c].url, chains[c].start, n)
         r == ForEachMessage(arr, onDeviceMsgCb, <<>>,
                             Backoff(chains[c].delay))
     IN /\ messagesReceived' = AdvanceCursor(messagesReceived, arr)
        /\ sumBatches' = sumBatches + n
        /\ onDeviceMsgCb' = r.cb
        /\ lastCalls' = r.log
        /\ droppedSome' = (droppedSome \/ SomeDropped(r.log))
        /\ delivered' = delivered \cup {r.log[i].payload : i \in 1..Len(r.log)}
        /\ chains' = [chains EXCEPT ![c].phase = "timer", ![c].delay = r.delay]
        /\ pollerSchedule' = 1
  /\ lastMsg' = UndefinedMsg
  /\ wsThrew' = FALSE
  /\ UNCHANGED <<negVars, wsVars, sends, cfgVars, pollRequests, urlVars>>

\* the poll fails (fetch rejects or the body is not JSON): pollerRoutine
\* ends in an unhandled rejection and sets no timer
PollFails(c) ==
  /\ connector = "polling"
  /\ c \in 1..Len(chains)
  /\ chains[c].phase = "inflight"
  /\ chains' = [chains EXCEPT ![c].phase = "dead"]
  /\ NoDispatch
  /\ UNCHANGED <<negVars, wsVars, cbVars, sends, cfgVars, pollRequests,
                 urlVars, messagesReceived, pollerSchedule, sumBatches>>

\* Every step except the calls of sendToDevice and their responses.  Those
\* read the connector but write only `sends`, so what holds of the other
\* variables without them holds with them.
NextCore ==
  \/ WsOnOpen
  \/ WsOnError
  \/ \E cb \in UserCallbacks : OnDeviceMsg(cb)
  \/ \E d \in DeviceIds : WsRequestDevice(d)
  \/ \E m \in Messages : OnWebsocketMessage(m)
  \/ \E d \in DeviceIds : PollRequestDevice(d)
  \/ \E r \in 1..MaxRequests, c \in Configs : ConfigResponse(r, c)
  \/ \E r \in 1..MaxRequests : ConfigFails(r)
  \/ \E r \in 1..MaxRequests, info \in DeviceInfos : ConnectResponse(r, r, info)
  \/ \E r \in 1..MaxRequests : ConnectResponse(r, 0, 0)
  \/ \E r \in 1..MaxRequests : ConnectFails(r)
  \/ \E c \in 1..MaxRequests : TimerFires(c)
  \/ \E c \in 1..MaxRequests, n \in 0..MaxBatch : PollResponse(c, n)
  \/ \E c \in 1..MaxRequests : PollFails(c)

Next ==
  \/ NextCore
  \/ \E p \in Payloads : WsSendToDevice(p)
  \/ \E p \in Payloads : PollSendToDevice(p)
  \/ \E i \in 1..MaxSends, ok \in BOOLEAN : ForwardResponse(i, ok)

Spec == Init /\ [][Next]_vars

SpecCore == Init /\ [][NextCore]_vars

\* The Polling Connector in an environment where no poll fails: the steps of
\* the negotiation and of the Polling Connector except PollFails.  The
\* steps of the Duplex Connector are disabled once the connector polls.
NextLive ==
  \/ WsOnOpen
  \/ WsOnError
  \/ \E cb \in UserCallbacks : OnDeviceMsg(cb)
  \/ \E d \in DeviceIds : PollRequestDevice(d)
  \/ \E r \in 1..MaxRequests, c \in Configs : ConfigResponse(r, c)
  \/ \E r \in 1..MaxRequests : ConfigFails(r)
  \/ \E r \in 1..MaxRequests, info \in DeviceInfos : ConnectResponse(r, r, info)
  \/ \E r \in 1..MaxRequests : ConnectResponse(r, 0, 0)
  \/ \E r \in 1..MaxRequests : ConnectFails(r)
  \/ \E c \in 1..MaxRequests : TimerFires(c)
  \/ \E c \in 1..MaxRequests, n \in 0..MaxBatch : PollResponse(c, n)

\* A timer set with setTimeout fires, and a poll that can be answered is
\* answered: the event loop runs the callback of a due timer, and the
\* continuation of pollerRoutine after its await runs once fetch settles.
SpecLive ==
  /\ Init
  /\ [][NextLive]_vars
  /\ \A c \in 1..MaxRequests :
       /\ WF_vars(TimerFires(c))
       /\ WF_vars(\E n \in 0..MaxBatch : PollResponse(c, n))

\* ------------------------------------------------------------- claims

\* C1: in the Polling Connector the cursor equals the sum of the sizes of
\* the batches received so far, the start parameter of every poll in flight
\* is that sum (0 for the first poll), the cursor never decreases and no
\* payload is handed to a callback twice.
C1_CursorIsSumOfBatches ==
  /\ [](connector = "polling" =>
          /\ messagesReceived = sumBatches
          /\ \A c \in 1..Len(chains) :
               chains[c].phase = "inflight" => chains[c].start = sumBatches)
  /\ [][/\ messagesReceived' >= messagesReceived
        /\ sumBatches' # sumBatches =>
             \A i \in 1..Len(lastCalls') :
               /\ lastCalls'[i].payload \notin delivered
               /\ \A j \in 1..Len(lastCalls') :
                    i # j => lastCalls'[i].payload # lastCalls'[j].payload]_vars

\* a second poll is in flight with start=2 after a first batch of two
\* messages was delivered
C1_Witness ==
  \E c \in 1..Len(chains) :
    /\ chains[c].phase = "inflight"
    /\ chains[c].start = 2
    /\ sumBatches = 2
    /\ delivered = {<<1, 1>>, <<1, 2>>}

\* C2: the delay of the timer set after a poll response is 1000 when the
\* response had at least one message, and min(60000, 2 x the delay of the
\* previous timer) when it had none.
C2_Backoff ==
  [][\A c \in 1..Len(chains) :
       (chains[c].phase = "inflight" /\ chains'[c].phase = "timer") =>
         chains'[c].delay = IF sumBatches' > sumBatches
                              THEN 1000
                              ELSE IF 2 * chains[c].delay > 60000
                                THEN 60000
                                ELSE 2 * chains[c].delay]_vars

\* messages were received and later empty polls raised the delay to the cap
C2_Witness ==
  \E c \in 1..Len(chains) :
    /\ chains[c].phase = "timer"
    /\ chains[c].delay = 60000
    /\ sumBatches > 0

\* C3: a promise returned by WebsocketConnector.requestDevice (and not
\* replaced by a later requestDevice while pending) is resolved, with
\* {deviceInfo, infraConfig}, exactly when a device_info message came before
\* any error condition; when an error condition came first it is rejected,
\* in every later state.
C3_ResolvesIffDeviceInfoFirst ==
  \A i \in 1..Len(wsRequests) :
    ~wsRequests[i].orphaned =>
      /\ wsRequests[i].state = "resolved" <=> wsRequests[i].first = "device_info"
      /\ wsRequests[i].first = "error" => wsRequests[i].state = "rejected"
      /\ wsRequests[i].state = "resolved" =>
           wsRequests[i].value.deviceInfo \in Bodies

\* an error condition came first, a device_info message came afterwards, and
\* the promise is rejected
C3_Witness ==
  /\ Len(wsRequests) = 1
  /\ wsRequests[1].first = "error"
  /\ wsRequests[1].state = "rejected"
  /\ lastMsg = Msg("device_info", Absent, 1)

\* C4: a message with a (truthy) error field received while the promise of
\* requestDevice is pending rejects that promise with the error value and
\* does nothing else, whatever its message_type: #futures (InfraConfig, the
\* availability continuation) is unchanged and no callback is invoked.
C4_ErrorFieldOnlyRejects ==
  [][(/\ lastMsg' # UndefinedMsg
      /\ Truthy(lastMsg'.error)
      /\ futures.onConnectionFailed # 0
      /\ wsRequests[futures.onConnectionFailed].state = "pending") =>
       /\ wsRequests'[futures.onConnectionFailed].state = "rejected"
       /\ wsRequests'[futures.onConnectionFailed].reason = lastMsg'.error
       /\ futures' = futures
       /\ lastCalls' = <<>>
       /\ onDeviceMsgCb' = onDeviceMsgCb
       /\ ~wsThrew'
       /\ \A i \in 1..Len(wsRequests) :
            i # futures.onConnectionFailed =>
              wsRequests'[i].state = wsRequests[i].state]_vars

\* a device_info message with error 'not found' rejected the pending promise
\* and left the availability continuation registered
C4_Witness ==
  /\ lastMsg = Msg("device_info", NotFound, 1)
  /\ Len(wsRequests) = 1
  /\ wsRequests[1].state = "rejected"
  /\ wsRequests[1].reason = NotFound
  /\ futures.onDeviceAvailable = 1

\* C5: every device_msg message (without error field, see C4) makes exactly
\* one invocation of the callback registered at that moment, with the
\* payload of the message, in every state of the connector.
C5_DeviceMsgInvokesCallback ==
  [][(/\ lastMsg' # UndefinedMsg
      /\ lastMsg'.message_type = "device_msg"
      /\ ~Truthy(lastMsg'.error)) =>
       lastCalls' = <<[cb |-> onDeviceMsgCb,
                       payload |-> <<0, lastMsg'.body>>]>>]_vars

\* a payload was delivered before any requestDevice call
C5_Witness ==
  /\ wsRequests = <<>>
  /\ lastMsg = Msg("device_msg", Absent, 2)
  /\ lastCalls = <<[cb |-> "cbA", payload |-> <<0, 2>>]>>

\* C6: createConnector returns the websocket connector when open is the
\* first event of the socket and the polling connector when error is the
\* first event, never an error, and what it returned never changes.
C6_Negotiation ==
  /\ [](/\ firstEvent = "none" => connector = "none"
        /\ firstEvent = "open" => connector = "ws"
        /\ firstEvent = "error" => connector = "polling")
  /\ [][connector # "none" => connector' = connector]_vars

\* the socket opened, failed afterwards, and the connector is still the
\* websocket connector
C6_Witness ==
  /\ firstEvent = "open"
  /\ wsReady = "CLOSED"
  /\ connector = "ws"

\* C7: a sendToDevice call made before requestDevice resolved returns a
\* promise that is rejected.
C7_EarlySendRejected ==
  \A i \in 1..Len(sends) :
    (sends[i].early /\ sends[i].state # "pending") =>
      (sends[i].state = "rejected" /\ ~sends[i].written)

\* C8: there is never more than one polling cycle: at most one pollerRoutine
\* closure exists, so at most one timer is pending or one poll in flight.
C8_SinglePollingCycle ==
  /\ Len(chains) <= 1
  /\ Cardinality({c \in 1..Len(chains) :
                    chains[c].phase \in {"timer", "inflight"}}) <= 1

\* two requestDevice calls both reached #startPolling and one cycle polls
C8_Witness ==
  /\ Len(pollRequests) = 2
  /\ pollRequests[1].startedPolling
  /\ pollRequests[2].startedPolling
  /\ Len(chains) = 1
  /\ chains[1].phase = "inflight"

\* C9: at most one GET infra_config request is issued per connector.
C9_SingleConfigFetch == configGets <= 1

\* C10: callbacks are invoked only in the step in which payloads arrive,
\* once per payload and in order, each time the callback registered at that
\* moment (the default one logs and drops), so registering a callback
\* replays nothing; a callback installed while a batch is processed gets
\* the later messages of the batch; the polling cursor advances past
\* dropped messages.
C10_DroppedNotQueued ==
  [][LET arrived ==
           IF lastMsg' # UndefinedMsg
             THEN IF lastMsg'.message_type = "device_msg" /\ ~Truthy(lastMsg'.error)
                    THEN << <<0, lastMsg'.body>> >>
                    ELSE <<>>
           ELSE IF sumBatches' # sumBatches
             THEN LET c == CHOOSE c \in 1..Len(chains) :
                             chains[c].phase = "inflight" /\ chains'[c].phase = "timer"
                  IN [i \in 1..(sumBatches' - sumBatches) |->
                        <<chains[c].url[1], chains[c].start + i>>]
           ELSE <<>>
     IN /\ Len(lastCalls') = Len(arrived)
        /\ \A i \in 1..Len(arrived) :
             /\ lastCalls'[i].payload = arrived[i]
             /\ lastCalls'[i].cb = IF i = 1 THEN onDeviceMsgCb
                                   ELSE CbInstalls(lastCalls'[i - 1].cb)
        /\ sumBatches' # sumBatches =>
             messagesReceived' = messagesReceived + Len(arrived)]_vars

\* the polling connector handed the first message to the default callback;
\* the callback registered afterwards was invoked for the second one only,
\* and the cursor is 2
C10_Witness ==
  /\ connector = "polling"
  /\ droppedSome
  /\ messagesReceived = 2
  /\ lastCalls = <<[cb |-> "cbA", payload |-> <<1, 2>>]>>

\* C11: in the Polling Connector a call of requestDevice whose connect POST
\* was answered by a decoded reply without connection_id and device_info
\* has its promise rejected and has not started the polling loop.
C11_RefusedConnectRejects ==
  \A r \in 1..Len(pollRequests) :
    pollRequests[r].connId = 0 =>
      /\ pollRequests[r].state = "rejected"
      /\ ~pollRequests[r].startedPolling

\* C12: in the Duplex Connector a device_info message (without error field,
\* see C4) received while an availability continuation is pending invokes
\* it, which resolves its promise if still pending, and clears it; a
\* device_info message received while none is pending (before any
\* requestDevice, or after the first device_info) is ignored: #futures, the
\* promises and the callback are unchanged and nothing is invoked.  Only a
\* call of requestDevice registers a continuation again, so each one is
\* invoked at most once.
C12_AvailabilityOnce ==
  /\ [][(/\ lastMsg' # UndefinedMsg
         /\ lastMsg'.message_type = "device_info"
         /\ ~Truthy(lastMsg'.error)) =>
          /\ futures'.onDeviceAvailable = 0
          /\ futures'.onConnectionFailed = futures.onConnectionFailed
          /\ futures'.infraConfig = futures.infraConfig
          /\ onDeviceMsgCb' = onDeviceMsgCb
          /\ lastCalls' = <<>>
          /\ ~wsThrew'
          /\ \A i \in 1..Len(wsRequests) :
               IF i = futures.onDeviceAvailable /\ wsRequests[i].state = "pending"
                 THEN /\ wsRequests'[i].state = "resolved"
                      /\ wsRequests'[i].value.deviceInfo = lastMsg'.body
                 ELSE /\ wsRequests'[i].state = wsRequests[i].state
                      /\ wsRequests'[i].value = wsRequests[i].value
                      /\ wsRequests'[i].reason = wsRequests[i].reason]_vars
  /\ [][(futures.onDeviceAvailable = 0 /\ futures'.onDeviceAvailable # 0) =>
          /\ lastMsg' = UndefinedMsg
          /\ Len(wsRequests') = Len(wsRequests) + 1
          /\ futures'.onDeviceAvailable = Len(wsRequests')]_vars

\* a second device_info message, with another device_info, arrived after
\* the one that resolved the promise and changed nothing
C12_Witness ==
  /\ lastMsg = Msg("device_info", Absent, 2)
  /\ Len(wsRequests) = 1
  /\ wsRequests[1].state = "resolved"
  /\ wsRequests[1].value.deviceInfo = 1
  /\ futures.onDeviceAvailable = 0
  /\ futures.onConnectionFailed = 1

\* C13: in the Duplex Connector a message without error field whose
\* message_type is none of config, device_info, device_msg, received while
\* the promise of requestDevice is pending, rejects it with the error
\* 'Unrecognized message type from server: <type>'; a promise rejected that way stays
\* rejected with that error, whatever arrives afterwards.
C13_UnrecognizedRejects ==
  /\ [][(/\ lastMsg' # UndefinedMsg
         /\ ~Truthy(lastMsg'.error)
         /\ lastMsg'.message_type \notin {"config", "device_info", "device_msg"}
         /\ futures.onConnectionFailed # 0
         /\ wsRequests[futures.onConnectionFailed].state = "pending") =>
          /\ wsRequests'[futures.onConnectionFailed].state = "rejected"
          /\ wsRequests'[futures.onConnectionFailed].reason =
               UnrecognizedMsg(lastMsg'.message_type)]_vars
  /\ [][\A i \in 1..Len(wsRequests) :
          (/\ wsRequests[i].state = "rejected"
           /\ wsRequests[i].reason = UnrecognizedMsg("bogus")) =>
            /\ wsRequests'[i].state = "rejected"
            /\ wsRequests'[i].reason = UnrecognizedMsg("bogus")]_vars

\* a device_info message arrived after the unrecognized message that
\* rejected the promise: the promise is still rejected
C13_Witness ==
  /\ lastMsg = Msg("device_info", Absent, 1)
  /\ Len(wsRequests) = 1
  /\ wsRequests[1].state = "rejected"
  /\ wsRequests[1].reason = UnrecognizedMsg("bogus")
  /\ wsRequests[1].first = "error"
  /\ futures.onDeviceAvailable = 0

\* C14: the dispatcher of the Duplex Connector handles every message in
\* every state without raising an exception; in particular a message with
\* an error field or of an unrecognized type that arrives before
\* requestDevice has registered the failure continuation does not call a
\* missing continuation.
C14_DispatchNeverThrows ==
  lastMsg # UndefinedMsg => ~wsThrew

\* C15: in the Duplex Connector a config message only stores the message
\* as InfraConfig: no promise is settled, no continuation is invoked or
\* changed, no callback is invoked.  The stored InfraConfig changes at
\* config messages only, so it is the most recently received one, and the
\* device_info message that resolves the promise resolves it with
\* infraConfig = that config message and deviceInfo = its own device_info.
C15_ConfigThenDeviceInfo ==
  /\ [][(/\ lastMsg' # UndefinedMsg
         /\ lastMsg'.message_type = "config"
         /\ ~Truthy(lastMsg'.error)) =>
          /\ futures' = [futures EXCEPT !.infraConfig = lastMsg']
          /\ lastCalls' = <<>>
          /\ onDeviceMsgCb' = onDeviceMsgCb
          /\ ~wsThrew'
          /\ \A i \in 1..Len(wsRequests) :
               /\ wsRequests'[i].state = wsRequests[i].state
               /\ wsRequests'[i].value = wsRequests[i].value
               /\ wsRequests'[i].reason = wsRequests[i].reason]_vars
  /\ [][futures'.infraConfig # futures.infraConfig =>
          (lastMsg' # UndefinedMsg /\ lastMsg'.message_type = "config")]_vars
  /\ [][(/\ lastMsg' # UndefinedMsg
         /\ lastMsg'.message_type = "device_info"
         /\ ~Truthy(lastMsg'.error)
         /\ futures.onDeviceAvailable # 0
         /\ wsRequests[futures.onDeviceAvailable].state = "pending") =>
          /\ wsRequests'[futures.onDeviceAvailable].state = "resolved"
          /\ wsRequests'[futures.onDeviceAvailable].value =
               [deviceInfo |-> lastMsg'.body,
                infraConfig |-> futures.infraConfig]]_vars

\* two config messages were received and then the device_info message:
\* the promise resolved with the second config and the device_info
C15_Witness ==
  /\ lastMsg = Msg("device_info", Absent, 2)
  /\ Len(wsRequests) = 1
  /\ wsRequests[1].state = "resolved"
  /\ wsRequests[1].value = [deviceInfo |-> 2,
                            infraConfig |-> Msg("config", Absent, 2)]
  /\ futures.infraConfig = Msg("config", Absent, 2)

\* C16: in the Polling Connector requestDevice keeps a fixed order: the
\* connect POST is in flight only once InfraConfig is available; a poll
\* request is in flight only once a connect response has arrived, and the
\* messages URL it is sent to was built from the connection_id of such a
\* response; the promise is resolved only once the polling loop was started.
C16_FixedOrder ==
  /\ \A r \in 1..Len(pollRequests) :
       /\ pollRequests[r].pc = "connect" =>
            (pollRequests[r].cfg # 0 /\ config # 0)
       /\ pollRequests[r].state = "resolved" =>
            (pollRequests[r].startedPolling /\ pollerSchedule # 0
             /\ chains # <<>>)
  /\ \A c \in 1..Len(chains) :
       chains[c].phase = "inflight" =>
         /\ chains[c].url # Unset
         /\ \E r \in 1..Len(pollRequests) :
              /\ pollRequests[r].connId # NoReply
              /\ chains[c].url = MessagesUrl(pollRequests[r].connId)

\* the first poll is in flight to the messages URL of connection 1, after
\* the config and the connect response of the call that resolved
C16_Witness ==
  /\ Len(pollRequests) = 1
  /\ pollRequests[1].state = "resolved"
  /\ pollRequests[1].connId = 1
  /\ pollRequests[1].value = [deviceInfo |-> 1, infraConfig |-> 1]
  /\ Len(chains) = 1
  /\ chains[1].phase = "inflight"
  /\ chains[1].url = MessagesUrl(1)

\* C17: in the Polling Connector a poll that fails ends the rescheduling
\* chain.  The step in which the poll in flight fails leaves the cursor
\* unchanged and invokes no callback; from then on the loop never changes
\* again: no timer is set, no poll is issued, the cursor stays, and a
\* later #startPolling() (from another requestDevice) does not restart it
\* because #pollerSchedule stays set.
C17_FailedPollStopsLoop ==
  /\ [][\A c \in 1..Len(chains) :
          (chains[c].phase = "inflight" /\ chains'[c].phase = "dead") =>
            /\ messagesReceived' = messagesReceived
            /\ lastCalls' = <<>>
            /\ onDeviceMsgCb' = onDeviceMsgCb
            /\ delivered' = delivered]_vars
  /\ [][(\E c \in 1..Len(chains) : chains[c].phase = "dead") =>
          /\ chains' = chains
          /\ pollerSchedule # 0
          /\ pollerSchedule' = pollerSchedule
          /\ messagesReceived' = messagesReceived
          /\ lastCalls' = <<>>]_vars

\* the second poll failed after the first had delivered a message; a
\* second requestDevice then got its connect response and called
\* #startPolling(), and there is still only the one, ended chain
C17_Witness ==
  /\ Len(chains) = 1
  /\ chains[1].phase = "dead"
  /\ chains[1].url = MessagesUrl(1)
  /\ messagesReceived = 1
  /\ Len(pollRequests) = 2
  /\ pollRequests[2].startedPolling
  /\ messagesUrl = MessagesUrl(2)

\* C18: once started, the polling loop does not end on its own: while
\* timers fire and every poll is answered, a poll that completed (its
\* routine has set the next timer) is eventually followed by another poll
\* request, and every poll to the messages URL of a connection completes;
\* so polls are issued again and again.
C18_LoopNeverStops ==
  /\ (\E c \in 1..Len(chains) : chains[c].phase = "timer")
       ~> (\E c \in 1..Len(chains) : chains[c].phase = "inflight")
  /\ (\E c \in 1..Len(chains) :
        chains[c].phase = "inflight" /\ chains[c].url[1] # 0)
       ~> (\E c \in 1..Len(chains) : chains[c].phase = "timer")

\* two polls were answered, the second one empty, and the timer of the
\* third is set
C18_Witness ==
  /\ Len(chains) = 1
  /\ chains[1].phase = "timer"
  /\ chains[1].delay = 2 * MinDelay
  /\ chains[1].start = 1
  /\ messagesReceived = 1

\* C19: the polling delay.  A loop starts with a first timer of 1000 ms; a
\* poll that is answered with no message turns the delay it was scheduled
\* with into the next one along 1000, 2000, 4000, 8000, 16000, 32000,
\* 60000, 60000: so the five consecutive empty polls of a freshly started
\* loop are scheduled with 1000, 2000, 4000, 8000 and 16000 ms, and the
\* delay stays 60000 once it got there.  In every reachable state the
\* delay is at least 1000 and at most 60000.
C19_DelaySequence ==
  /\ [](\A c \in 1..Len(chains) :
          chains[c].delay >= 1000 /\ chains[c].delay <= 60000)
  /\ [][\A c \in 1..Len(chains') :
          c > Len(chains) =>
            (chains'[c].phase = "timer" /\ chains'[c].delay = 1000)]_vars
  /\ [][\A c \in 1..Len(chains) :
          (/\ chains[c].phase = "inflight"
           /\ chains'[c].phase = "timer"
           /\ sumBatches' = sumBatches) =>
            <<chains[c].delay, chains'[c].delay>> \in
              {<<1000, 2000>>, <<2000, 4000>>, <<4000, 8000>>,
               <<8000, 16000>>, <<16000, 32000>>, <<32000, 60000>>,
               <<60000, 60000>>}]_vars

\* no message was ever received and the fifth empty poll of the loop,
\* scheduled with 16000 ms, has just been answered
C19_Witness ==
  /\ sumBatches = 0
  /\ Len(chains) = 1
  /\ chains[1].phase = "timer"
  /\ chains[1].delay = 32000
  /\ lastCalls = <<>>

\* C20: in the Duplex Connector the promise of requestDevice keeps its
\* outcome once settled: no later step changes its state, its value or its
\* reason (an error-field or unrecognized message after the resolving
\* device_info does not reject it, a device_info after a rejection does not
\* resolve it), and a message never unregisters the failure continuation,
\* which stays in #futures without effect.
C20_SettledOutcomeKept ==
  /\ [][\A i \in 1..Len(wsRequests) :
          wsRequests[i].state # "pending" =>
            /\ wsRequests'[i].state = wsRequests[i].state
            /\ wsRequests'[i].value = wsRequests[i].value
            /\ wsRequests'[i].reason = wsRequests[i].reason]_vars
  /\ [][lastMsg' # UndefinedMsg =>
          futures'.onConnectionFailed = futures.onConnectionFailed]_vars

\* a message with an error field arrived after the device_info message
\* that resolved the promise: it called the failure continuation, which is
\* still registered, and the promise is still resolved
C20_Witness ==
  /\ lastMsg = Msg("device_msg", NotFound, 1)
  /\ ~wsThrew
  /\ Len(wsRequests) = 1
  /\ wsRequests[1].state = "resolved"
  /\ wsRequests[1].value.deviceInfo = 1
  /\ wsRequests[1].first = "device_info"
  /\ futures.onConnectionFailed = 1
  /\ futures.onDeviceAvailable = 0

====
